---- MODULE Spec2Model ----
(***************************************************************************)
(* Model of package openssl's init.go: the package initialisation          *)
(* sequence (init, Goopenssl_init_threadsafety), the mutex bank sslMutexes *)
(* behind the OpenSSL locking callback, and errorFromErrorQueue, which     *)
(* drains the calling thread's OpenSSL error queue into one error value.   *)
(*                                                                         *)
(* Strings are sequences of one-character strings, so that formatting and  *)
(* joining are computed, character by character, as fmt.Sprintf and        *)
(* strings.Join compute them.                                              *)
(***************************************************************************)
EXTENDS Integers, Sequences, FiniteSets, TLC

\* ------------------------------------------------------------------ bounds
\* Number of threads (goroutines locked to their OS thread) using the package.
NumThreads == 2
\* Largest value CRYPTO_num_locks() returns.
MaxSlots == 2
\* Largest number of error codes in the process at a time: those on the
\* threads' queues and those a drain under way has popped and not yet returned.
MaxQueue == 3

Threads == 1..NumThreads

\* ------------------------------------------------------------------- state
VARIABLES
    initPc,          \* position of the package's init(): a line of init.go
    rc,              \* rc of Goopenssl_init_threadsafety / init
    setupCalls,      \* the native setup calls made so far, in call order
    sslMutexes,      \* the mutex bank: slot -> locked?
    lockingCallback, \* TRUE once CRYPTO_set_locking_callback has been called
    tpc,             \* each thread's position
    errQueue,        \* each thread's OpenSSL error queue, oldest first
    errs,            \* errorFromErrorQueue's local errs
    snap,            \* the thread's queue when its drain started (history)
    popped,          \* the codes ERR_get_error returned to the drain (history)
    result,          \* the value errorFromErrorQueue returned
    pops,            \* the calls of ERR_get_error the drain has made (history)
    drained,         \* a drain has returned on the thread and the thread has
                     \* entered no native operation since (history)
    want,            \* the slot whose Lock() the thread is blocked in, or -1
    held             \* the slots each thread has locked and not yet unlocked

vars == <<initPc, rc, setupCalls, sslMutexes, lockingCallback, tpc, errQueue,
          errs, snap, popped, result, pops, drained, want, held>>

initVars == <<initPc, rc, setupCalls, lockingCallback>>
drainVars == <<errs, snap, popped, result, pops, drained>>
lockVars == <<want, held>>

\* ------------------------------------------------------- the native tables
\* The error codes the native library queues: never 0, which ERR_get_error
\* keeps for "the queue is empty".
ErrCodes == {1, 2}

\* The sequences of codes one native call leaves on the queue (none: it
\* succeeded, or failed without pushing a code).
PushedCodes == {<<>>, <<1>>, <<2>>, <<1, 2>>, <<2, 1>>}

\* SSL_load_error_strings has been called.
ErrStringsLoaded == \E k \in 1..Len(setupCalls) : setupCalls[k] = 3

\* C.GoString(C.ERR_lib_error_string(err)): the library's name for err, and
\* "" for the NULL the library returns when it has no string.
ERR_lib_error_string(err) ==
    IF ~ErrStringsLoaded THEN <<>>
    ELSE IF err = 1 THEN <<"S", "S", "L">>
    ELSE <<"x", "5", "0", "9">>

\* C.GoString(C.ERR_func_error_string(err)); code 2 has no function string.
ERR_func_error_string(err) ==
    IF ~ErrStringsLoaded THEN <<>>
    ELSE IF err = 1 THEN <<"r", "d">>
    ELSE <<>>

\* C.GoString(C.ERR_reason_error_string(err)).
ERR_reason_error_string(err) ==
    IF ~ErrStringsLoaded THEN <<>>
    ELSE IF err = 1 THEN <<"e", "o", "f">>
    ELSE <<"b", "a", "d">>

\* ----------------------------------------------------------------- strings
Colon == <<":">>
Newline == <<"\n">>

\* The literal "SSL errors: " of the final Sprintf.
Prefix == <<"S", "S", "L", " ", "e", "r", "r", "o", "r", "s", ":", " ">>

\* fmt.Sprintf("%s:%s:%s", lib, func, reason) for one popped code.
FormatRecordFuncFirst(err) ==
    ERR_func_error_string(err) \o Colon \o ERR_lib_error_string(err)
        \o Colon \o ERR_reason_error_string(err)

FormatRecord(err) ==
    ERR_lib_error_string(err) \o Colon \o ERR_func_error_string(err)
        \o Colon \o ERR_reason_error_string(err)

\* strings.Join(ss, sep).
RECURSIVE Join(_, _)
Join(ss, sep) ==
    IF Len(ss) = 0 THEN <<>>
    ELSE IF Len(ss) = 1 THEN ss[1]
    ELSE ss[1] \o sep \o Join(Tail(ss), sep)

\* fmt.Sprintf("SSL errors: %s", strings.Join(errs, "\n")).
FormatMessage(ss) == Prefix \o Join(ss, Newline)

NilError == [isNil |-> TRUE, msg |-> <<>>]

\* errors.New(text): a non-nil error carrying text.
ErrorsNew(text) == [isNil |-> FALSE, msg |-> text]

\* The value the drain returns for the lines it collected.
DrainResultNilWhenEmpty(ss) ==
    IF Len(ss) = 0 THEN NilError ELSE ErrorsNew(FormatMessage(ss))

DrainResult(ss) == ErrorsNew(FormatMessage(ss))

\* --------------------------------------------------------------- sync.Mutex
Slots == DOMAIN sslMutexes

\* make([]sync.Mutex, n): n unlocked mutexes, indexed from 0.
NewBank(n) == [i \in 0..(n - 1) |-> FALSE]

\* sslMutexes[i].Lock() can return: the mutex is unlocked.
CanLockAlways(i) == TRUE

CanLock(i) == ~sslMutexes[i]

\* sslMutexes[i].Lock() returning.
Lock(i) == [sslMutexes EXCEPT ![i] = TRUE]

\* sslMutexes[i].Unlock().
UnlockFrees(i) == [j \in DOMAIN sslMutexes \ {i} |-> sslMutexes[j]]

UnlockAll(i) == [j \in DOMAIN sslMutexes |-> FALSE]

Unlock(i) == [sslMutexes EXCEPT ![i] = FALSE]

\* -------------------------------------------------------------------- Init
Init ==
    /\ initPc = "notstarted"
    /\ rc = 0
    /\ setupCalls = <<>>
    /\ sslMutexes = NewBank(0)
    /\ lockingCallback = FALSE
    /\ tpc = [t \in Threads |-> "blocked"]
    /\ errQueue = [t \in Threads |-> <<>>]
    /\ errs = [t \in Threads |-> <<>>]
    /\ snap = [t \in Threads |-> <<>>]
    /\ popped = [t \in Threads |-> <<>>]
    /\ result = [t \in Threads |-> NilError]
    /\ pops = [t \in Threads |-> 0]
    /\ drained = [t \in Threads |-> FALSE]
    /\ want = [t \in Threads |-> -1]
    /\ held = [t \in Threads |-> {}]

\* ------------------------------------------------------------ func init()
\* The C int values Goopenssl_init_locks returns: 0, or a failure code.
RcValues == {-1, 0, 1}

\* The lines of init() that make one native setup call each, in source order.
SetupLines == <<"l94", "l95", "l96", "l97", "l98">>

\* The setup step a line of init() performs: 1 OPENSSL_config, 2
\* ENGINE_load_builtin_engines, 3 SSL_load_error_strings, 4 SSL_library_init,
\* 5 OpenSSL_add_all_algorithms.
StepSwapped(line) ==
    CASE line = "l94" -> 1 [] line = "l95" -> 2 [] line = "l96" -> 4
      [] line = "l97" -> 3 [] line = "l98" -> 5

StepAt(line) ==
    CASE line = "l94" -> 1 [] line = "l95" -> 2 [] line = "l96" -> 3
      [] line = "l97" -> 4 [] line = "l98" -> 5

\* The statement that follows a line of init().
LineAfter(line) ==
    CASE line = "l94" -> "l95" [] line = "l95" -> "l96" [] line = "l96" -> "l97"
      [] line = "l97" -> "l98" [] line = "l98" -> "l68"

\* The Go runtime runs a package's init() once, before main and before any
\* other function of the package can be called.
InitRunsAgain == initPc \in {"notstarted", "done"}

InitNotRun == initPc = "notstarted"

\* init() has returned.
InitProceedsOnStart == initPc # "notstarted"

InitReturned == initPc = "done"

\* rc != 0 of init().
RcFailedPositive(r) == r > 0

RcFailed(r) == r # 0

\* rc == 0 of Goopenssl_init_threadsafety().
RcIgnored(r) == TRUE

RcOk(r) == r = 0

\* The runtime enters init().
InitStart ==
    /\ InitNotRun
    /\ initPc' = "l94"
    /\ UNCHANGED <<rc, setupCalls, sslMutexes, lockingCallback, tpc, errQueue,
                   drainVars, lockVars>>

\* Lines 94-98: one native setup call.
SetupCall ==
    /\ \E k \in 1..Len(SetupLines) : initPc = SetupLines[k]
    /\ setupCalls' = Append(setupCalls, StepAt(initPc))
    /\ initPc' = LineAfter(initPc)
    /\ UNCHANGED <<rc, sslMutexes, lockingCallback, tpc, errQueue, drainVars,
                   lockVars>>

\* Line 68, rc = Goopenssl_init_locks(): asks the library for its number of
\* locks and allocates the bank; a nonzero rc reports that it could not.
Goopenssl_init_locks ==
    /\ initPc = "l68"
    /\ \E n \in 0..MaxSlots, r \in RcValues :
          /\ rc' = r
          /\ sslMutexes' = IF r = 0 THEN NewBank(n) ELSE NewBank(0)
    /\ setupCalls' = Append(setupCalls, 6)
    /\ initPc' = "l69"
    /\ UNCHANGED <<lockingCallback, tpc, errQueue, drainVars, lockVars>>

\* Lines 69-72: the callback is registered only when rc == 0.
SetLockingCallback ==
    /\ initPc = "l69"
    /\ IF RcOk(rc)
         THEN /\ lockingCallback' = TRUE
              /\ setupCalls' = Append(setupCalls, 7)
         ELSE UNCHANGED <<lockingCallback, setupCalls>>
    /\ initPc' = "l100"
    /\ UNCHANGED <<rc, sslMutexes, tpc, errQueue, drainVars, lockVars>>

\* Lines 100-103: panic on a nonzero rc (the process dies), else return.
InitCheckRc ==
    /\ initPc = "l100"
    /\ initPc' = IF RcFailed(rc) THEN "panicked" ELSE "done"
    /\ UNCHANGED <<rc, setupCalls, sslMutexes, lockingCallback, tpc, errQueue,
                   drainVars, lockVars>>

\* The process-wide initialisation state.
InitState ==
    CASE initPc = "notstarted" -> "NotStarted"
      [] initPc = "done" -> "Done"
      [] initPc = "panicked" -> "Failed"
      [] OTHER -> "InProgress"

\* ----------------------------------------------------------------- threads
\* A thread calls into the package for the first time: only after init().
ThreadStart(t) ==
    /\ tpc[t] = "blocked"
    /\ InitReturned
    /\ tpc' = [tpc EXCEPT ![t] = "idle"]
    /\ UNCHANGED <<initVars, sslMutexes, errQueue, drainVars, lockVars>>

\* The error codes in the process: queued, or popped by a drain under way.
RECURSIVE CodesUpTo(_)
CodesUpTo(n) ==
    IF n = 0 THEN 0
    ELSE Len(errQueue[n]) + Len(popped[n]) + CodesUpTo(n - 1)

Queued == CodesUpTo(NumThreads)

\* The thread whose queue a native call made on thread t works on: the
\* library keeps one error queue per thread.
QueueOwnerShared(t) == 1

QueueOwner(t) == t

\* The thread enters a native operation.
NativeCall(t) ==
    /\ tpc[t] = "idle"
    /\ tpc' = [tpc EXCEPT ![t] = "native"]
    /\ drained' = [drained EXCEPT ![t] = FALSE]
    /\ UNCHANGED <<initVars, sslMutexes, errQueue, errs, snap, popped, result,
                   pops, lockVars>>

\* The native operation returns, leaving the codes it pushed on the calling
\* thread's queue; the library holds none of its locks across a return.
NativeReturn(t, codes) ==
    /\ tpc[t] = "native"
    /\ want[t] = -1
    /\ held[t] = {}
    /\ Queued + Len(codes) <= MaxQueue
    /\ errQueue' = [errQueue EXCEPT ![QueueOwner(t)] = @ \o codes]
    /\ tpc' = [tpc EXCEPT ![t] = "idle"]
    /\ UNCHANGED <<initVars, sslMutexes, drainVars, lockVars>>

\* ------------------------------------------------- errorFromErrorQueue()
\* An ERR_get_error that reports an even code as 0, "the queue is empty".
ERR_get_error_Truncated(q) == IF Len(q) = 0 THEN 0 ELSE Head(q) % 2

\* C.ERR_get_error(): the oldest code of the calling thread's queue, or 0
\* when the queue is empty.
ERR_get_error(q) == IF Len(q) = 0 THEN 0 ELSE Head(q)

\* The queue ERR_get_error leaves behind: the returned code is removed.
QueueKeepsCode(q) == q

QueueSkipsOne(q) == IF Len(q) >= 2 THEN Tail(Tail(q)) ELSE <<>>

QueueAfterGet(q) == IF Len(q) = 0 THEN q ELSE Tail(q)

\* errs = append(errs, line).
PrependLine(ss, line) == <<line>> \o ss

AppendLine(ss, line) == Append(ss, line)

\* Line 108: the drain starts on the calling thread with errs == nil.
DrainStart(t) ==
    /\ tpc[t] = "idle"
    /\ tpc' = [tpc EXCEPT ![t] = "drain"]
    /\ errs' = [errs EXCEPT ![t] = <<>>]
    /\ snap' = [snap EXCEPT ![t] = errQueue[QueueOwner(t)]]
    /\ popped' = [popped EXCEPT ![t] = <<>>]
    /\ result' = [result EXCEPT ![t] = NilError]
    /\ pops' = [pops EXCEPT ![t] = 0]
    /\ UNCHANGED <<initVars, sslMutexes, errQueue, drained, lockVars>>

\* Lines 109-119, one iteration of the loop: pop a code; on 0 leave the loop
\* and return the error value, otherwise format the code and append the line.
DrainStep(t) ==
    /\ tpc[t] = "drain"
    /\ LET err == ERR_get_error(errQueue[QueueOwner(t)])
       IN  /\ errQueue' = [errQueue EXCEPT ![QueueOwner(t)] = QueueAfterGet(@)]
           /\ pops' = [pops EXCEPT ![t] = @ + 1]
           /\ IF err = 0
                THEN /\ result' = [result EXCEPT ![t] = DrainResult(errs[t])]
                     /\ tpc' = [tpc EXCEPT ![t] = "returned"]
                     /\ drained' = [drained EXCEPT ![t] = TRUE]
                     /\ UNCHANGED <<errs, popped>>
                ELSE /\ errs' = [errs EXCEPT
                                   ![t] = AppendLine(@, FormatRecord(err))]
                     /\ popped' = [popped EXCEPT ![t] = Append(@, err)]
                     /\ UNCHANGED <<result, tpc, drained>>
    /\ UNCHANGED <<initVars, sslMutexes, snap, lockVars>>

\* The caller has taken the returned error; the drain's locals are gone.
DrainDone(t) ==
    /\ tpc[t] = "returned"
    /\ tpc' = [tpc EXCEPT ![t] = "idle"]
    /\ errs' = [errs EXCEPT ![t] = <<>>]
    /\ snap' = [snap EXCEPT ![t] = <<>>]
    /\ popped' = [popped EXCEPT ![t] = <<>>]
    /\ result' = [result EXCEPT ![t] = NilError]
    /\ pops' = [pops EXCEPT ![t] = 0]
    /\ UNCHANGED <<initVars, sslMutexes, errQueue, drained, lockVars>>

\* --------------------------------------- Goopenssl_thread_locking_callback
\* The library, inside a native operation of thread t, calls the registered
\* callback to acquire slot i: the thread enters sslMutexes[i].Lock().
LockRequest(t, i) ==
    /\ lockingCallback
    /\ tpc[t] = "native"
    /\ want[t] = -1
    /\ i \in Slots
    /\ i \notin held[t]
    /\ want' = [want EXCEPT ![t] = i]
    /\ UNCHANGED <<initVars, sslMutexes, tpc, errQueue, drainVars, held>>

\* sslMutexes[i].Lock() returns to thread t.
LockAcquire(t) ==
    /\ want[t] # -1
    /\ CanLock(want[t])
    /\ sslMutexes' = Lock(want[t])
    /\ held' = [held EXCEPT ![t] = @ \cup {want[t]}]
    /\ want' = [want EXCEPT ![t] = -1]
    /\ UNCHANGED <<initVars, tpc, errQueue, drainVars>>

\* The library calls the callback to release slot i, which thread t holds.
LockRelease(t, i) ==
    /\ lockingCallback
    /\ tpc[t] = "native"
    /\ want[t] = -1
    /\ i \in held[t]
    /\ sslMutexes' = Unlock(i)
    /\ held' = [held EXCEPT ![t] = @ \ {i}]
    /\ UNCHANGED <<initVars, tpc, errQueue, drainVars, want>>

\* ------------------------------------------------------------ specification
InitNext ==
    \/ InitStart
    \/ SetupCall
    \/ Goopenssl_init_locks
    \/ SetLockingCallback
    \/ InitCheckRc

Next ==
    \/ InitNext
    \/ \E t \in Threads : ThreadStart(t)
    \/ \E t \in Threads : NativeCall(t)
    \/ \E t \in Threads, codes \in PushedCodes : NativeReturn(t, codes)
    \/ \E t \in Threads : DrainStart(t)
    \/ \E t \in Threads : DrainStep(t)
    \/ \E t \in Threads : DrainDone(t)
    \/ \E t \in Threads, i \in 0..(MaxSlots - 1) : LockRequest(t, i)
    \/ \E t \in Threads : LockAcquire(t)
    \/ \E t \in Threads, i \in 0..(MaxSlots - 1) : LockRelease(t, i)

Spec == Init /\ [][Next]_vars

\* The package without lock events: initialisation, failing native
\* operations and drains.
DrainNext ==
    \/ InitNext
    \/ \E t \in Threads : ThreadStart(t)
    \/ \E t \in Threads : NativeCall(t)
    \/ \E t \in Threads, codes \in PushedCodes : NativeReturn(t, codes)
    \/ \E t \in Threads : DrainStart(t)
    \/ \E t \in Threads : DrainStep(t)
    \/ \E t \in Threads : DrainDone(t)

DrainSpec == Init /\ [][DrainNext]_vars

\* The package without error codes: initialisation and the lock events of
\* native operations.
LockNext ==
    \/ InitNext
    \/ \E t \in Threads : ThreadStart(t)
    \/ \E t \in Threads : NativeCall(t)
    \/ \E t \in Threads : NativeReturn(t, <<>>)
    \/ \E t \in Threads, i \in 0..(MaxSlots - 1) : LockRequest(t, i)
    \/ \E t \in Threads : LockAcquire(t)
    \/ \E t \in Threads, i \in 0..(MaxSlots - 1) : LockRelease(t, i)

LockSpec == Init /\ [][LockNext]_vars

\* ------------------------------------------------------------------ claims
\* The setup steps made so far, as a set.
StepsMade == {setupCalls[k] : k \in 1..Len(setupCalls)}

\* C1: with several threads waiting to use the package, no setup step is ever
\* executed twice, and a thread that has got past initialisation finds init()
\* returned with each of the steps 1-7 executed (so exactly once).
C1_InitOnceBeforeCallers ==
    /\ Cardinality(StepsMade) = Len(setupCalls)
    /\ \A t \in Threads :
          tpc[t] # "blocked" => (initPc = "done" /\ StepsMade = 1..7)

\* Every thread (there are at least two) has got past initialisation.
C1_Witness ==
    /\ NumThreads >= 2
    /\ \A t \in Threads : tpc[t] # "blocked"

\* C2: the setup calls made so far are always the first steps of the sequence
\* 1, 2, ..., 7 in that order: the k-th call made is step k.
C2_FixedOrder ==
    /\ Len(setupCalls) <= 7
    /\ \A k \in 1..Len(setupCalls) : setupCalls[k] = k

\* All seven steps have been made.
C2_Witness == setupCalls = <<1, 2, 3, 4, 5, 6, 7>>

\* Goopenssl_init_locks has returned a nonzero rc.
AllocFailed == rc # 0 /\ 6 \in StepsMade

\* C3: once lock-bank allocation has returned nonzero, init() is on its way to
\* the panic or has panicked; it never returns, the callback is not
\* registered, no thread runs any operation or holds a returned error, and
\* after the panic no step of the process is possible.
C3_AllocFailureIsFatal ==
    AllocFailed =>
        /\ initPc \in {"l69", "l100", "panicked"}
        /\ ~lockingCallback
        /\ \A t \in Threads :
              /\ tpc[t] = "blocked"
              /\ result[t] = NilError
              /\ want[t] = -1
              /\ held[t] = {}
        /\ initPc = "l100" => ~ENABLED (Next /\ initPc' # "panicked")
        /\ initPc = "panicked" => ~ENABLED Next

\* init() has panicked on a negative rc.
C3_Witness == initPc = "panicked" /\ rc = -1

InitTransitions ==
    {<<"NotStarted", "InProgress">>, <<"InProgress", "InProgress">>,
     <<"InProgress", "Done">>, <<"InProgress", "Failed">>,
     <<"NotStarted", "NotStarted">>, <<"Done", "Done">>,
     <<"Failed", "Failed">>}

\* C4: every step takes the initialisation state along NotStarted ->
\* InProgress -> Done or InProgress -> Failed, or leaves it alone; nothing
\* leaves Done or Failed, and a step into Failed is made with a nonzero rc of
\* the lock-bank allocation.
C4_InitStateTransitions ==
    [][ /\ <<InitState, InitState'>> \in InitTransitions
        /\ (InitState # "Failed" /\ InitState' = "Failed") => AllocFailed
      ]_vars

\* Initialisation is Done and a thread has drained its queue since.
C4_Witness == InitState = "Done" /\ \E t \in Threads : tpc[t] = "returned"

\* ----------------------------------------------- reading a message back
\* The index of the first c in s, or 0.
RECURSIVE IndexFrom(_, _, _)
IndexFrom(s, c, k) ==
    IF k > Len(s) THEN 0
    ELSE IF s[k] = c THEN k
    ELSE IndexFrom(s, c, k + 1)

\* The pieces of s between the occurrences of the character c.
RECURSIVE SplitOn(_, _)
SplitOn(s, c) ==
    LET k == IndexFrom(s, c, 1)
    IN  IF k = 0 THEN <<s>>
        ELSE <<SubSeq(s, 1, k - 1)>> \o SplitOn(SubSeq(s, k + 1, Len(s)), c)

\* The lines of a message.
Lines(msg) == SplitOn(msg, "\n")

HasPrefix(s, pre) == Len(s) >= Len(pre) /\ SubSeq(s, 1, Len(pre)) = pre

StripPrefix(s, pre) == SubSeq(s, Len(pre) + 1, Len(s))

\* The records a message lists after "SSL errors: ", one to a line; an
\* empty remainder lists none (a record is never empty: it has two colons).
RecordsOf(msg) ==
    IF Len(StripPrefix(msg, Prefix)) = 0 THEN <<>>
    ELSE Lines(StripPrefix(msg, Prefix))

\* The first position >= k at which text occurs in msg, or 0.
RECURSIVE FindFrom(_, _, _)
FindFrom(text, msg, k) ==
    IF k + Len(text) - 1 > Len(msg) THEN 0
    ELSE IF SubSeq(msg, k, k + Len(text) - 1) = text THEN k
    ELSE FindFrom(text, msg, k + 1)

\* The texts occur in msg from position k on, one after the other in the
\* order given, without overlapping.
RECURSIVE OccurInOrder(_, _, _)
OccurInOrder(texts, msg, k) ==
    IF Len(texts) = 0 THEN TRUE
    ELSE LET f == FindFrom(Head(texts), msg, k)
         IN  f # 0 /\ OccurInOrder(Tail(texts), msg, f + Len(Head(texts)))

\* The three strings the tables give for a code.
Components(err) ==
    <<ERR_lib_error_string(err), ERR_func_error_string(err),
      ERR_reason_error_string(err)>>

\* The texts of the codes of a queue, oldest first.
TextsOf(q) == [k \in 1..Len(q) |-> FormatRecord(q[k])]

Returned(t) == tpc[t] = "returned"

\* C5: when a drain returns, the texts of the codes that were queued when it
\* started occur in the message one after the other in queue order, the
\* oldest first, whatever the queue held.
C5_OldestFirst ==
    \A t \in Threads :
        Returned(t) => OccurInOrder(TextsOf(snap[t]), result[t].msg, 1)

\* A drain has returned a queue of three codes that is not a palindrome.
C5_Witness ==
    \E t \in Threads :
        /\ Returned(t)
        /\ Len(snap[t]) = 3
        /\ snap[t][1] # snap[t][3]

\* C6: when a drain returns, the codes it popped are exactly the codes that
\* were queued on the thread when it started, each once and in order, and the
\* message lists exactly one record for each of them.
C6_EveryCodeOnce ==
    \A t \in Threads :
        Returned(t) =>
            /\ popped[t] = snap[t]
            /\ ~result[t].isNil
            /\ HasPrefix(result[t].msg, Prefix)
            /\ RecordsOf(result[t].msg) = TextsOf(snap[t])

\* A drain has returned a queue of several codes, one of them twice.
C6_Witness ==
    \E t \in Threads :
        /\ Returned(t)
        /\ Len(snap[t]) = 3
        /\ snap[t][1] = snap[t][2]
        /\ snap[t][2] # snap[t][3]

\* The queue held exactly two codes when the drain that has returned started.
DrainedTwo(t) == Returned(t) /\ Len(snap[t]) = 2

\* C7 as stated: the message of a drain of two codes has exactly two lines and
\* each line, split at the colons, is the three strings of its code and
\* nothing else.
C7_AsStated ==
    \A t \in Threads :
        DrainedTwo(t) =>
            /\ Len(Lines(result[t].msg)) = 2
            /\ \A k \in 1..2 :
                  SplitOn(Lines(result[t].msg)[k], ":") = Components(snap[t][k])

\* C7, amended: the message of a drain of two codes has exactly two lines; the
\* first is "SSL errors: " followed by the first code's record, the second is
\* the second code's record, and each record, split at the colons, is the
\* code's subsystem, function and reason strings in that order.
C7_TwoRecordsAfterPrefix ==
    \A t \in Threads :
        DrainedTwo(t) =>
            LET lines == Lines(result[t].msg)
            IN  /\ Len(lines) = 2
                /\ HasPrefix(lines[1], Prefix)
                /\ SplitOn(StripPrefix(lines[1], Prefix), ":")
                       = Components(snap[t][1])
                /\ SplitOn(lines[2], ":") = Components(snap[t][2])

\* A drain of two different codes has returned.
C7_Witness ==
    \E t \in Threads : DrainedTwo(t) /\ snap[t][1] # snap[t][2]

\* C8: a drain of an empty queue is never stuck, and what it returns is a
\* non-nil error whose message is the bare "SSL errors: " with no record.
C8_EmptyQueue ==
    \A t \in Threads :
        /\ (tpc[t] = "drain" /\ Len(errQueue[t]) = 0) => ENABLED DrainStep(t)
        /\ (Returned(t) /\ Len(snap[t]) = 0) =>
              /\ ~result[t].isNil
              /\ result[t].msg = Prefix
              /\ Len(RecordsOf(result[t].msg)) = 0
              /\ Len(errs[t]) = 0

\* A drain of an empty queue has returned.
C8_Witness == \E t \in Threads : Returned(t) /\ Len(snap[t]) = 0

\* ------------------------------------------------------ lock/unlock cycles
\* Threads in lock/unlock cycles: request a slot, acquire it, release it. A
\* thread that holds slots requests only a higher one (the library takes its
\* locks in one order, so that no two threads wait for each other). A holder
\* releases (strong fairness of each release, which is disabled while the
\* holder waits for a further slot), and a thread blocked in Lock() gets the
\* mutex if it is free again and again (strong fairness of the acquisition:
\* sync.Mutex hands a starving waiter the lock).
CycleNext ==
    \/ InitNext
    \/ \E t \in Threads : ThreadStart(t)
    \/ \E t \in Threads : NativeCall(t)
    \/ \E t \in Threads : NativeReturn(t, <<>>)
    \/ \E t \in Threads, i \in 0..(MaxSlots - 1) :
          (\A j \in held[t] : j < i) /\ LockRequest(t, i)
    \/ \E t \in Threads : LockAcquire(t)
    \/ \E t \in Threads, i \in 0..(MaxSlots - 1) : LockRelease(t, i)

CycleFairness ==
    /\ \A t \in Threads, i \in 0..(MaxSlots - 1) : SF_vars(LockRelease(t, i))
    /\ \A t \in Threads : SF_vars(LockAcquire(t))

LockCycleSpec == Init /\ [][CycleNext]_vars /\ CycleFairness

\* No slot is held by two threads, and a locked mutex has a holder.
MutualExclusion ==
    /\ \A t1, t2 \in Threads : t1 # t2 => held[t1] \cap held[t2] = {}
    /\ \A i \in Slots : sslMutexes[i] <=> \E t \in Threads : i \in held[t]

\* While a thread is blocked in Lock(), some thread can acquire or release.
NoDeadlock ==
    (\E t \in Threads : want[t] # -1) =>
        ENABLED ((\E t \in Threads : LockAcquire(t))
                    \/ (\E t \in Threads, i \in Slots : LockRelease(t, i)))

\* C9: whatever number of slots the bank was allocated with, no two threads
\* ever hold the same slot, the threads never all wait for each other, and
\* every thread that requests a slot eventually holds it.
C9_ExclusionAndProgress ==
    /\ []MutualExclusion
    /\ []NoDeadlock
    /\ \A t \in Threads, i \in 0..(MaxSlots - 1) :
          (want[t] = i) ~> (i \in held[t])

\* A thread is blocked in Lock() on a slot that another thread holds.
C9_Witness ==
    \E t1, t2 \in Threads :
        t1 # t2 /\ want[t1] # -1 /\ want[t1] \in held[t2]

\* The slots whose mutex a step changes.
ChangedSlots == {i \in Slots : sslMutexes'[i] # sslMutexes[i]}

\* C10: a step in which thread t's acquire of slot i returns locks mutex i,
\* which was unlocked, and changes no other mutex; a step in which t releases
\* slot i unlocks mutex i and changes no other; no other step changes a mutex
\* of the bank; and a thread holding a slot is not kept by it from acquiring
\* a different slot that is free.
C10_OnlyTheSlotNamed ==
    /\ [][ \A t \in Threads :
             /\ (want[t] # -1 /\ want'[t] = -1) =>
                   /\ ChangedSlots = {want[t]}
                   /\ ~sslMutexes[want[t]] /\ sslMutexes'[want[t]]
                   /\ held'[t] = held[t] \cup {want[t]}
             /\ \A i \in Slots :
                   (i \in held[t] /\ i \notin held'[t]) =>
                       /\ ChangedSlots = {i}
                       /\ ~sslMutexes'[i]
                       /\ held'[t] = held[t] \ {i}
         ]_vars
    /\ [][ (lockingCallback /\ held' = held) => sslMutexes' = sslMutexes ]_vars
    /\ [](\A t \in Threads, i \in Slots, j \in Slots :
             (i \in held[t] /\ j # i /\ ~sslMutexes[j]) =>
                 /\ (tpc[t] = "native" /\ want[t] = -1) => ENABLED LockRequest(t, j)
                 /\ want[t] = j => ENABLED LockAcquire(t))

\* A thread holds two slots at once.
C10_Witness == \E t \in Threads : Cardinality(held[t]) = 2

\* ------------------------------------------------------ the bank's lifetime
\* C11: from the return of the bank's allocation on, and so once
\* initialisation has completed, no step changes the set of slots of the
\* bank; and a slot a thread holds stays a slot of the bank, with its mutex
\* locked: the bank is never resized, reallocated or freed, as a whole or
\* slot by slot.
C11_BankFixed ==
    /\ [][ (6 \in StepsMade \/ InitState = "Done") =>
               DOMAIN sslMutexes' = DOMAIN sslMutexes ]_vars
    /\ [](\A t \in Threads : \A i \in held[t] : i \in Slots /\ sslMutexes[i])

\* After initialisation, with a bank of two slots, a thread inside a native
\* operation holds slot 1 and slot 0 is free.
C11_Witness ==
    /\ InitState = "Done"
    /\ Slots = {0, 1}
    /\ ~sslMutexes[0]
    /\ \E t \in Threads : held[t] = {1} /\ tpc[t] = "native" /\ want[t] = -1

\* ------------------------------------------------------ thread-local queues
\* Thread t is in a drain that has not yet returned to its caller's code.
InDrain(t) == tpc[t] \in {"drain", "returned"}

\* C12: a step of thread t's drain changes no other thread's queue and only
\* removes from t's own; throughout the drain the codes it has popped,
\* followed by what is left on t's queue, are the codes that were on t's queue
\* when it started, whatever the other threads push meanwhile; so the drain
\* returns exactly those codes.
C12_OwnQueueOnly ==
    /\ [][ \A t \in Threads :
             (tpc[t] = "drain" /\ pops'[t] # pops[t]) =>
                 /\ \A u \in Threads \ {t} : errQueue'[u] = errQueue[u]
                 /\ Len(errQueue'[t]) <= Len(errQueue[t])
         ]_vars
    /\ [](\A t \in Threads :
             InDrain(t) => snap[t] = popped[t] \o errQueue[t])
    /\ [](\A t \in Threads :
             Returned(t) => (popped[t] = snap[t] /\ Len(errQueue[t]) = 0))

\* A drain has returned two codes to one thread while another thread's
\* native operation has left a code on that thread's own queue.
C12_Witness ==
    \E t, u \in Threads :
        /\ t # u
        /\ Returned(t)
        /\ Len(popped[t]) = 2
        /\ Len(errQueue[u]) = 1
        /\ tpc[u] = "idle"

\* ------------------------------------------- registration of the callback
\* C14: the locking callback is registered only after the lock-bank
\* allocation has returned 0; after a nonzero rc it is not registered and
\* step 7 is not made; and a thread waits for or holds a slot only with the
\* callback registered and the slot a slot of the allocated bank.
C14_RegisteredOnlyAfterAllocation ==
    /\ lockingCallback => (rc = 0 /\ 6 \in StepsMade)
    /\ 7 \in StepsMade => lockingCallback
    /\ AllocFailed => (~lockingCallback /\ 7 \notin StepsMade)
    /\ \A t \in Threads :
          /\ want[t] # -1 => (lockingCallback /\ want[t] \in Slots)
          /\ held[t] # {} => (lockingCallback /\ held[t] \subseteq Slots)

\* The callback has just been registered for a bank of the largest size;
\* init() has not yet looked at rc.
C14_Witness ==
    lockingCallback /\ initPc = "l100" /\ Cardinality(Slots) = MaxSlots

\* ------------------------------------------------------ the drain's loop
\* The drain loop, once entered, keeps running (the goroutine is scheduled).
DrainFairness == \A t \in Threads : WF_vars(DrainStep(t))

DrainFairSpec == Init /\ [][DrainNext]_vars /\ DrainFairness

\* What the loop has done so far, given the queue it started with.
LoopCounts(t) ==
    /\ tpc[t] = "drain" =>
          /\ pops[t] = Len(popped[t])
          /\ pops[t] <= Len(snap[t])
          /\ ENABLED DrainStep(t)
    /\ Returned(t) =>
          /\ pops[t] = Len(snap[t]) + 1
          /\ Len(popped[t]) = Len(snap[t])
          /\ Len(errs[t]) = Len(snap[t])
          /\ \A k \in 1..Len(popped[t]) : popped[t][k] # 0

\* C15: a drain that has started returns; until then every call of
\* ERR_get_error has returned a queued code, and when it returns it has made
\* one call more than there were codes queued: the last call returned 0, and
\* the 0 gave no record.
C15_LoopTerminates ==
    /\ [](\A t \in Threads : LoopCounts(t))
    /\ \A t \in Threads : (tpc[t] = "drain") ~> Returned(t)

\* A drain of a full queue has made all its calls but the last.
C15_Witness ==
    \E t \in Threads :
        tpc[t] = "drain" /\ pops[t] = MaxQueue /\ Len(errQueue[t]) = 0

\* --------------------------------------------------- the drain consumes
\* C16: when a drain returns, the calling thread's queue is empty; a drain
\* started on a thread that has entered no native operation since its last
\* drain returned finds the queue empty, and returns the bare "SSL errors: "
\* with no record.
C16_DrainConsumes ==
    /\ [](\A t \in Threads :
             /\ Returned(t) => Len(errQueue[t]) = 0
             /\ (drained[t] /\ tpc[t] \in {"idle", "drain"}) =>
                   (Len(errQueue[t]) = 0 /\ Len(snap[t]) = 0 /\ Len(errs[t]) = 0))
    /\ [][ \A t \in Threads :
             (drained[t] /\ tpc[t] = "drain" /\ tpc'[t] = "returned") =>
                 /\ ~result'[t].isNil
                 /\ result'[t].msg = Prefix
                 /\ Len(RecordsOf(result'[t].msg)) = 0
         ]_vars

\* A second drain runs on a thread whose last drain has returned, with no
\* native operation on the thread between them.
C16_Witness == \E t \in Threads : drained[t] /\ tpc[t] = "drain"

\* ------------------------------------------------- nothing before init()
\* Thread t is in a native operation, in a drain, or waits for or holds a
\* slot of the bank.
Operating(t) ==
    \/ tpc[t] \in {"native", "drain", "returned"}
    \/ pops[t] > 0
    \/ want[t] # -1
    \/ held[t] # {}

\* C17: whenever a thread is in a drain, or waits for or holds a slot through
\* the locking callback, init() has returned: initialisation is Done, and
\* the error-string tables are loaded.
C17_NothingBeforeInitDone ==
    \A t \in Threads :
        Operating(t) => (InitState = "Done" /\ ErrStringsLoaded)

\* One thread is in the middle of a drain while another holds a slot.
C17_Witness ==
    \E t, u \in Threads :
        /\ tpc[t] = "drain" /\ pops[t] >= 1
        /\ held[u] # {}

====
